---- MODULE Spec2Model ----
(***************************************************************************)
(* Model of PIFuHD/recontructor.py: class Reconstructor.                   *)
(*                                                                         *)
(* State: the instance fields start_id / end_id (set in __init__, rewritten *)
(* by evaluate), the position of the running call (pc), and the locals of  *)
(* _gen_mesh_gray / _gen_mesh_color that the mesh handed to                *)
(* save_obj_mesh_with_color is built from.                                 *)
(*                                                                         *)
(* Numbers.  A vertex is one integer coordinate (the three coordinates are *)
(* treated alike by the code).  A normal / sampled colour is an integer in *)
(* -1..1; the remapped attribute x * 0.5 + 0.5 is stored doubled (x + 1)   *)
(* so that it stays integral.  A calibration is the affine map             *)
(* x |-> a*x + b with a in {-1, 0, 1} (a = 0 is a singular matrix).        *)
(***************************************************************************)
EXTENDS Integers, Sequences, FiniteSets

\* ------------------------------------------------------------------ bounds
MaxN == 4          \* largest vertex count returned by reconstruction
MaxInterval == 2   \* chunk sizes 1..MaxInterval are explored besides 50000
MaxLen == 2        \* largest dataset length handed to evaluate
MaxId == 1         \* opt.start_id, opt.end_id range over -1..MaxId

\* The chunk size of the source (interval = 50000).
IntervalSrc == 50000

VARIABLES
    opt,          \* the options given to __init__: [start_id, end_id]
    start_id,     \* self.start_id
    end_id,       \* self.end_id
    interval,     \* local `interval` of _gen_mesh_gray
    pc,           \* position of the running call
    caller,       \* "evaluate" | "direct": who called the running _gen_mesh_*
    flavor,       \* "gray" | "color" | "none"
    test_len,     \* len(test_dataset) of the running evaluate
    eval_i,       \* loop variable i of evaluate
    callIds,      \* <<self.start_id, self.end_id>> at entry of evaluate
    reconLog,     \* dataset indices _gen_mesh_gray was called for, in order
    data,         \* the data item: a function, "calib_world" optional key
    verts,        \* local verts
    verts_tensor, \* local verts_tensor (copy of reconstruction's vertices)
    color,        \* local color
    i,            \* loop variable i of the attribute loop
    calls,        \* calc_normal invocations of the running call
    chunkLog,     \* slices written by the attribute loop: [idx, lo, hi]
    failed,       \* an exception was raised in the running call
    mismatch,     \* calc_normal returned a count other than the one asked
    saved,        \* save_obj_mesh_with_color was invoked in the running call
    mesh,         \* what it was invoked with: [verts, color]
    outcome,      \* "none" | "returned" | "raised"
    retval        \* "None" | "paths"

instVars == <<opt, start_id, end_id, interval>>
evalVars == <<test_len, eval_i, callIds, reconLog>>
meshVars == <<data, verts, verts_tensor, color, i, calls, chunkLog>>
obsVars == <<failed, mismatch, saved, mesh, outcome, retval>>
vars == <<instVars, evalVars, meshVars, obsVars, pc, caller, flavor>>

\* ----------------------------------------------------------------- helpers
Max(a, b) == IF a >= b THEN a ELSE b
Min(a, b) == IF a <= b THEN a ELSE b

NoMesh == [verts |-> <<>>, color |-> <<>>]
NoData == [k \in {} |-> 0]

\* Python slice a[left:right] on a sequence of length n, as the half-open
\* 0-based range <<lo, hi>>: a negative bound counts from the end, both are
\* clipped to 0..n, and an inverted range is empty.
PySlice(left, right, n) ==
    LET norm(x) == IF x < 0 THEN Max(x + n, 0) ELSE Min(x, n)
        lo == norm(left)
    IN  <<lo, Max(lo, norm(right))>>

\* The rows lo+1 .. hi (1-based) of a sequence.
Rows(s, lo, hi) == [t \in 1..(hi - lo) |-> s[lo + t]]

\* x * 0.5 + 0.5, stored doubled.
Remap(x) == x + 1

\* ------------------------------------------------------------ collaborators
\* The meshes reconstruction() may return: n vertices, n in 0..MaxN.
VertexArrays == {[j \in 1..n |-> j] : n \in 0..MaxN}

\* The data items of a dataset: with or without a world calibration.
CalibWorlds == {[a |-> 1, b |-> 1], [a |-> -1, b |-> 1], [a |-> 0, b |-> 0]}
DataItems == {NoData} \cup {[k \in {"calib_world"} |-> cw] : cw \in CalibWorlds}

\* netMR.calc_normal: the normal of one vertex (deterministic).
NormalOracle(v) == (v % 3) - 1

\* netMR.projection followed by index: the colour sampled for one vertex.
\* Their code is not part of the source at hand; by their contract
\* (N points in, N samples out) the array built from them has N rows.
ColorOracle(v) == 2 * (v % 2) - 1

\* What calc_normal leaves in netMR.nmls when it answers k results for the
\* points pts: the normals of the points, cut or padded to k.
ReturnedNormals(pts, k) ==
    [t \in 1..k |-> IF t <= Len(pts) THEN NormalOracle(pts[t]) ELSE 1]

\* The result counts explored for a request of m points.
ResultCounts(m) == {m, 0, 1, m + 1}

\* ------------------------------------------------------------ numpy pieces
\* A variant of AllocColor: one row short.
AllocColor_Short(v) == [j \in 1..(Len(v) - 1) |-> 0]

\* np.zeros(verts.shape)
AllocColor(v) == [j \in 1..Len(v) |-> 0]

\* color[left:right] = vals succeeds when the counts agree or vals is one row.
Broadcastable(k, m) == k = m \/ k = 1

AssignSlice(c, lo, hi, vals) ==
    [j \in 1..Len(c) |->
        IF lo < j /\ j <= hi
        THEN (IF Len(vals) = hi - lo THEN vals[j - lo] ELSE vals[1])
        ELSE c[j]]

\* Calibration matrices.
Apply(m, x) == m.a * x + m.b
Singular(m) == m.a = 0
\* A variant of Inv: the matrix itself, not its inverse.
Inv_Forward(m) == m

Inv(m) == [a |-> m.a, b |-> -(m.a * m.b)]

\* np.matmul(concatenate([verts, 1]), inv(calib_world).T)[:, :3]
WorldVerts(v, cw) == [j \in 1..Len(v) |-> Apply(Inv(cw), v[j])]

\* ---------------------------------------------------------- loop arithmetic
NumChunks(n, c) == (n \div c) + 1
Left(k, c) == k * c
\* A variant of Right: a chunk that runs one row into the next one.
Right_Overlap(k, n, c) == IF k = n \div c THEN -1 ELSE (k + 1) * c + 1

Right(k, n, c) == IF k = n \div c THEN -1 ELSE (k + 1) * c

\* -------------------------------------------------------------------- Init
Ids == -1..MaxId
Intervals == (1..MaxInterval) \cup {IntervalSrc}

Init ==
    /\ opt \in [start_id : Ids, end_id : Ids]
    /\ start_id = opt.start_id
    /\ end_id = opt.end_id
    /\ interval \in Intervals
    /\ pc = "idle"
    /\ caller = "direct"
    /\ flavor = "none"
    /\ test_len = 0
    /\ eval_i = 0
    /\ callIds = <<opt.start_id, opt.end_id>>
    /\ reconLog = <<>>
    /\ data = NoData
    /\ verts = <<>>
    /\ verts_tensor = <<>>
    /\ color = <<>>
    /\ i = 0
    /\ calls = 0
    /\ chunkLog = <<>>
    /\ failed = FALSE
    /\ mismatch = FALSE
    /\ saved = FALSE
    /\ mesh = NoMesh
    /\ outcome = "none"
    /\ retval = "None"

\* ---------------------------------------------------------- call plumbing
\* Entering _gen_mesh_gray / _gen_mesh_color: fresh locals.
EnterGenMesh(d) ==
    /\ data' = d
    /\ verts' = <<>>
    /\ verts_tensor' = <<>>
    /\ color' = <<>>
    /\ i' = 0
    /\ calls' = 0
    /\ chunkLog' = <<>>
    /\ failed' = FALSE
    /\ mismatch' = FALSE
    /\ saved' = FALSE
    /\ mesh' = NoMesh
    /\ outcome' = "none"
    /\ retval' = "None"

\* A new call starts: nothing an earlier call left is seen by its caller.
ClearCall == EnterGenMesh(NoData)

\* Where control goes when _gen_mesh_* ends.
AfterGenMesh == IF caller = "evaluate" THEN "eval_ret" ELSE "idle"

\* A variant of ExceptHandler: the handler saves what was built so far.
ExceptHandler_SavesPartial ==
    /\ failed' = TRUE
    /\ saved' = TRUE
    /\ mesh' = [verts |-> verts, color |-> color]
    /\ outcome' = "returned"
    /\ retval' = "None"
    /\ pc' = AfterGenMesh

\* except Exception as e: print(e) -- the function then falls off its end.
ExceptHandler ==
    /\ failed' = TRUE
    /\ outcome' = "returned"
    /\ retval' = "None"
    /\ pc' = AfterGenMesh
    /\ UNCHANGED <<saved, mesh>>

\* What a successful call returns: (save_img_path, save_path) or nothing.
SuccessReturn(f) == IF f = "gray" THEN "paths" ELSE "None"

\* save_obj_mesh_with_color(save_path, verts, faces, color) and the return.
SaveAndReturn(v, c) ==
    /\ saved' = TRUE
    /\ mesh' = [verts |-> v, color |-> c]
    /\ outcome' = "returned"
    /\ retval' = SuccessReturn(flavor)
    /\ pc' = AfterGenMesh
    /\ UNCHANGED failed

\* ------------------------------------------------------------------ evaluate
\* evaluate, lines 71-80: normalise the range in place and enter the loop.
Evaluate ==
    /\ pc = "idle"
    /\ \E n \in 0..MaxLen :
        /\ start_id' = (IF start_id < 0 THEN 0 ELSE start_id)
        /\ end_id' = (IF end_id < 0 THEN n ELSE end_id)
        /\ test_len' = n
    /\ eval_i' = start_id'
    /\ callIds' = <<start_id, end_id>>
    /\ reconLog' = <<>>
    /\ caller' = "evaluate"
    /\ flavor' = "none"
    /\ pc' = "eval_loop"
    /\ ClearCall
    /\ UNCHANGED <<opt, interval>>

\* evaluate, lines 80-92: one pass of `for i in range(start_id, end_id)`.
EvalIter ==
    /\ pc = "eval_loop"
    /\ \/ \* test_data = test_dataset[i]; self._gen_mesh_gray(...)
          /\ eval_i < end_id
          /\ eval_i < test_len
          /\ \E d \in DataItems : EnterGenMesh(d)
          /\ reconLog' = Append(reconLog, eval_i)
          /\ flavor' = "gray"
          /\ pc' = "filter"
          /\ UNCHANGED <<instVars, test_len, eval_i, callIds, caller>>
       \/ \* the range is exhausted, or i >= len(test_dataset): break
          /\ ~(eval_i < end_id /\ eval_i < test_len)
          /\ outcome' = "returned"
          /\ retval' = "None"
          /\ pc' = "idle"
          /\ UNCHANGED <<instVars, evalVars, meshVars, caller, flavor,
                         failed, mismatch, saved, mesh>>

\* A variant of EvalReturn: the result is dropped and the loop goes on.
EvalReturn_Continue ==
    /\ pc = "eval_ret"
    /\ pc' = "eval_loop"
    /\ eval_i' = eval_i + 1
    /\ UNCHANGED <<instVars, test_len, callIds, reconLog, meshVars, obsVars,
                   caller, flavor>>

\* evaluate, line 92: `return self._gen_mesh_gray(...)` -- the result (or the
\* exception) of the callee is the result of evaluate; the loop is left.
EvalReturn ==
    /\ pc = "eval_ret"
    /\ pc' = "idle"
    /\ UNCHANGED <<instVars, evalVars, meshVars, obsVars, caller, flavor>>

\* A direct call of _gen_mesh_color (evaluate never calls it).
CallColor ==
    /\ pc = "idle"
    /\ \E d \in DataItems : EnterGenMesh(d)
    /\ caller' = "direct"
    /\ flavor' = "color"
    /\ pc' = "filter"
    /\ UNCHANGED <<instVars, evalVars>>

\* ------------------------------------------------------------ _gen_mesh_*
\* Lines 101-106 / 153-158: tensors to the device, filter_global,
\* filter_local.  They stand outside the try: an exception leaves the call.
Filter ==
    /\ pc = "filter"
    /\ \/ /\ pc' = "recon"
          /\ UNCHANGED obsVars
       \/ /\ failed' = TRUE
          /\ outcome' = "raised"
          /\ retval' = "None"
          /\ pc' = AfterGenMesh
          /\ UNCHANGED <<mismatch, saved, mesh>>
    /\ UNCHANGED <<instVars, evalVars, meshVars, caller, flavor>>

\* Lines 119-136 / 171-182: the image dump and reconstruction(), inside the
\* try; on success verts_tensor is built and (gray) color is allocated.
Recon ==
    /\ pc = "recon"
    /\ \/ /\ ExceptHandler
          /\ UNCHANGED <<verts, verts_tensor, color, mismatch>>
       \/ /\ \E v \in VertexArrays :
                /\ verts' = v
                /\ verts_tensor' = v
                /\ color' = (IF flavor = "gray" THEN AllocColor(v) ELSE color)
          /\ pc' = (IF flavor = "gray" THEN "attr" ELSE "project")
          /\ UNCHANGED obsVars
    /\ i' = 0
    /\ UNCHANGED <<instVars, evalVars, data, calls, chunkLog, caller, flavor>>

\* Lines 137-148: one pass of the attribute loop of _gen_mesh_gray; the last
\* pass runs on into save_obj_mesh_with_color and the return.
AttrChunk ==
    /\ pc = "attr"
    /\ i < NumChunks(Len(color), interval)
    /\ LET left == Left(i, interval)
           right == Right(i, Len(color), interval)
           src == PySlice(left, right, Len(verts_tensor))
           dst == PySlice(left, right, Len(color))
           pts == Rows(verts_tensor, src[1], src[2])
       IN  \/ \* calc_normal raises
              /\ ExceptHandler
              /\ UNCHANGED <<color, chunkLog, mismatch>>
           \/ \* calc_normal answers k results
              \E k \in ResultCounts(Len(pts)) :
                LET nml == [t \in 1..k |-> Remap(ReturnedNormals(pts, k)[t])]
                    written == AssignSlice(color, dst[1], dst[2], nml)
                IN  /\ mismatch' = (mismatch \/ k # Len(pts))
                    /\ IF Broadcastable(k, dst[2] - dst[1])
                       THEN /\ color' = written
                            /\ chunkLog' = Append(chunkLog,
                                   [idx |-> i, lo |-> dst[1], hi |-> dst[2]])
                            /\ IF i + 1 < NumChunks(Len(color), interval)
                               THEN /\ pc' = "attr"
                                    /\ UNCHANGED <<failed, saved, mesh,
                                                   outcome, retval>>
                               ELSE SaveAndReturn(verts, written)
                       ELSE \* ValueError: could not broadcast
                            /\ ExceptHandler
                            /\ UNCHANGED <<color, chunkLog>>
    /\ i' = i + 1
    /\ calls' = calls + 1
    /\ UNCHANGED <<instVars, evalVars, data, verts, verts_tensor,
                   caller, flavor>>

\* Lines 185-194: projection and index over all vertices at once, the
\* optional world calibration, save_obj_mesh_with_color.
ProjectColor ==
    /\ pc = "project"
    /\ \/ \* projection or index raises
          /\ ExceptHandler
          /\ UNCHANGED <<color, verts>>
       \/ LET c == [j \in 1..Len(verts_tensor) |->
                       Remap(ColorOracle(verts_tensor[j]))]
          IN  /\ color' = c
              /\ IF "calib_world" \in DOMAIN data
                 THEN IF Singular(data["calib_world"])
                      THEN \* inv raises LinAlgError
                           /\ ExceptHandler
                           /\ UNCHANGED verts
                      ELSE /\ verts' = WorldVerts(verts, data["calib_world"])
                           /\ SaveAndReturn(verts', c)
                 ELSE /\ UNCHANGED verts
                      /\ SaveAndReturn(verts, c)
    /\ UNCHANGED <<instVars, evalVars, data, verts_tensor, i, calls,
                   chunkLog, mismatch, caller, flavor>>

Next ==
    \/ Evaluate
    \/ EvalIter
    \/ EvalReturn
    \/ CallColor
    \/ Filter
    \/ Recon
    \/ AttrChunk
    \/ ProjectColor

Spec == Init /\ [][Next]_vars

\* ================================================================== claims
N == Len(verts_tensor)
CeilDiv(n, c) == (n + c - 1) \div c

\* The attribute array of one oracle query over all N vertices.
Unchunked == [j \in 1..N |-> Remap(ReturnedNormals(verts_tensor, N)[j])]

\* A call of evaluate has ended.
EvaluateEnded == pc = "idle" /\ caller = "evaluate" /\ outcome # "none"

\* The indices one evaluate reconstructs, from the range bounds it was
\* entered with and the dataset length.
ExpectedIndices(s0, e0, n) ==
    LET s == IF s0 < 0 THEN 0 ELSE s0
        e == IF e0 < 0 THEN n ELSE e0
    IN  IF s < e /\ s < n THEN <<s>> ELSE <<>>

\* The saved vertices are the reconstructed ones taken through the inverse
\* of calib_world when the data has one, and unchanged otherwise.
InverseApplied ==
    IF "calib_world" \in DOMAIN data
    THEN /\ Len(mesh.verts) = N
         /\ \A j \in 1..N :
                Apply(data["calib_world"], mesh.verts[j]) = verts_tensor[j]
    ELSE mesh.verts = verts_tensor

\* C1: with an oracle that answers what it is asked, the attribute array the
\* chunked loop of _gen_mesh_gray hands to the serializer equals, row by row,
\* the array of one query over all N vertices.
C1_ChunkedEqualsUnchunked ==
    (saved /\ flavor = "gray" /\ ~mismatch) => mesh.color = Unchunked

\* C2: a completed attribute loop has invoked calc_normal exactly
\* ceil(N / interval) times.
C2_CallsAreCeil ==
    (saved /\ flavor = "gray") => calls = CeilDiv(N, interval)

\* C3: whenever save_obj_mesh_with_color is reached, the attribute array has
\* as many rows as the vertex array, in both flavors.
C3_AttrRowsEqualVerts ==
    saved => Len(mesh.color) = Len(mesh.verts)

C3_Witness ==
    /\ saved
    /\ flavor = "gray"
    /\ Len(mesh.verts) >= 2
    /\ Len(chunkLog) >= 2

\* C4: once reconstruction, calc_normal on any chunk, or projection / index
\* has raised in a call, save_obj_mesh_with_color is not invoked in that call.
C4_NoSaveAfterFailure ==
    failed => (~saved /\ mesh = NoMesh)

C4_Witness ==
    /\ failed
    /\ flavor = "gray"
    /\ outcome = "returned"
    /\ Len(chunkLog) >= 1
    /\ \E j \in 1..Len(color) : color[j] # 0

\* C5: a call in which a failure was raised does not end the way a
\* successful call of the same flavor ends.
C5_FailureDistinguishable ==
    (failed /\ outcome # "none")
        => <<outcome, retval>> # <<"returned", SuccessReturn(flavor)>>

\* C6: when calc_normal answers a chunk with a result count other than the
\* count asked, the call fails there and no mesh is saved.
C6_MismatchFailsCall ==
    mismatch => (failed /\ ~saved)

\* C7 (as stated): in both flavors the mesh handed to the serializer has the
\* inverse of calib_world applied when the data has one.
C7_InverseInBothFlavors ==
    saved => InverseApplied

\* C7 (amended): _gen_mesh_color applies the inverse of calib_world when the
\* data has one and passes the vertices unchanged otherwise; _gen_mesh_gray
\* always passes the vertices unchanged.
C7_InverseInColorOnly ==
    saved => IF flavor = "color"
             THEN InverseApplied
             ELSE mesh.verts = verts_tensor

C7_Witness ==
    /\ saved
    /\ flavor = "color"
    /\ "calib_world" \in DOMAIN data
    /\ N >= 2
    /\ mesh.verts # verts_tensor

\* C8: the attribute loop writes its chunks in increasing index order, each
\* a contiguous slice of at most `interval` rows, the slices pairwise
\* disjoint: no row is written twice.
C8_ChunksOrderedDisjoint ==
    /\ \A t \in 1..Len(chunkLog) :
        /\ chunkLog[t].idx = t - 1
        /\ 0 <= chunkLog[t].lo
        /\ chunkLog[t].lo <= chunkLog[t].hi
        /\ chunkLog[t].hi <= Len(color)
        /\ chunkLog[t].hi - chunkLog[t].lo <= interval
        /\ \A u \in (t + 1)..Len(chunkLog) : chunkLog[t].hi <= chunkLog[u].lo
    /\ \A j \in 1..Len(color) :
        Cardinality({t \in 1..Len(chunkLog) :
                        chunkLog[t].lo < j /\ j <= chunkLog[t].hi}) <= 1

C8_Witness ==
    /\ Len(chunkLog) >= 3
    /\ \A t \in 1..2 : chunkLog[t].hi - chunkLog[t].lo = interval
    /\ interval >= 2

\* C9: the indices an evaluate call reconstructs are those a first call
\* after construction, with the same options, would reconstruct.
C9_CallIndependent ==
    EvaluateEnded
        => reconLog = ExpectedIndices(opt.start_id, opt.end_id, test_len)

\* C10: one evaluate performs at most one reconstruction: of index s exactly
\* when s < e and s < len(dataset), s and e taken from the bounds it was
\* entered with; otherwise it reconstructs nothing and returns None.
C10_AtMostOneReconstruction ==
    /\ Len(reconLog) <= 1
    /\ (caller = "evaluate" /\ pc \notin {"idle", "eval_loop"})
        => reconLog = ExpectedIndices(callIds[1], callIds[2], test_len)
    /\ EvaluateEnded =>
        /\ reconLog = ExpectedIndices(callIds[1], callIds[2], test_len)
        /\ reconLog = <<>> =>
            (outcome = "returned" /\ retval = "None" /\ ~saved)

C10_Witness ==
    /\ EvaluateEnded
    /\ saved
    /\ Len(reconLog) = 1
    /\ reconLog[1] + 1 < end_id
    /\ reconLog[1] + 1 < test_len

====
